---- MODULE Spec2Model ----
(***************************************************************************)
(* Model of the rss_reader package: the Feed class of package/RssFeed.py   *)
(* (get_dict, write_to_database, read_from_database, the storage printers) *)
(* and the storage file it keeps.                                          *)
(*                                                                         *)
(* Python dictionaries are functions with a string domain, so that a       *)
(* missing key (KeyError) is a key outside DOMAIN.  Lists are sequences.   *)
(* An exception is the string naming its class; "None" is no exception.    *)
(***************************************************************************)
EXTENDS Integers, Sequences, FiniteSets, TLC

VARIABLES store, feed, last, result, output, merged, run, procs, text

vars == <<store, feed, last, result, output, merged, run, procs, text>>

(***************************************************************************)
(* Bounds of the model.                                                    *)
(***************************************************************************)
\* largest number of <item> elements in one fetched document
MaxFetch == 2
\* largest value of the --limit argument that is tried
MaxLimit == 2
\* largest length of a string given to html_to_text
MaxText == 4

(***************************************************************************)
(* Values.                                                                 *)
(***************************************************************************)
None == "None"

\* the storage file: whether os.path.exists finds it, whether json.load
\* decodes it, and the list of feed dictionaries it decodes to
File(feed_list) == [exists |-> TRUE, decodable |-> TRUE, feed_list |-> feed_list]

\* the storage file does not exist
Absent == [exists |-> FALSE, decodable |-> FALSE, feed_list |-> <<>>]

\* the storage file exists and json.load raises JSONDecodeError on it
\* (an empty file, as left by open(storage_path, "w") with nothing dumped)
Undecodable == [exists |-> TRUE, decodable |-> FALSE, feed_list |-> <<>>]

\* pubDate strings that dateutil's parse accepts, with the datetime each
\* parses to: the day and hour on the sender's clock and the UTC offset,
\* in hours.
parse ==
  [s \in {"d1 23:00 +00", "d2 00:00 +02", "d2 01:00 +03", "d2 05:00 +00"} |->
     CASE s = "d1 23:00 +00" -> [day |-> 1, hour |-> 23, off |-> 0]
       [] s = "d2 00:00 +02" -> [day |-> 2, hour |-> 0,  off |-> 2]
       [] s = "d2 01:00 +03" -> [day |-> 2, hour |-> 1,  off |-> 3]
       [] s = "d2 05:00 +00" -> [day |-> 2, hour |-> 5,  off |-> 0]]

\* comparison key of an aware datetime: its instant, in hours UTC
instant(dt) == dt.day * 24 + dt.hour - dt.off

\* datetime.date(): the calendar day on the datetime's own clock
date(dt) == dt.day

\* the requested dates, as datetime.strptime(date, "%Y%m%d").date() gives them
Dates == 1 .. 3

\* the item dictionaries that the <item> elements of the modelled documents
\* give: g1 comes with two titles and dates, two dates are the same instant
\* written in two zones, one item has a <link> and no <guid>, one has a
\* pubDate that parse rejects
Entries ==
  { [guid |-> "g1", title |-> "t1", pubDate |-> "d1 23:00 +00"],
    [guid |-> "g1", title |-> "t2", pubDate |-> "d2 00:00 +02"],
    [guid |-> "g2", title |-> "t3", pubDate |-> "d2 01:00 +03"],
    [guid |-> "g3", title |-> "t4", pubDate |-> "d2 05:00 +00"],
    [title |-> "t5", link |-> "l5", pubDate |-> "d2 00:00 +02"],
    [guid |-> "g2", title |-> "t6", pubDate |-> "yesterday"] }

\* the URLs given on the command line, as sequences of characters
Urls == { <<"a">>, <<"a", "/">>, <<"b", "/", "/">> }

\* the <title> of the channel that a URL serves
ChannelTitle(rss_url) == IF rss_url[1] = "a" THEN "A news" ELSE "B news"

RECURSIVE SeqsUpTo(_, _)
SeqsUpTo(S, n) ==
  IF n = 0 THEN { <<>> }
  ELSE LET shorter == SeqsUpTo(S, n - 1)
       IN  shorter \cup { Append(s, x) : s \in { t \in shorter : Len(t) = n - 1 }, x \in S }

\* the item lists of the documents that channel a may serve: g1 under two
\* titles and dates, and g3
ItemListsA == SeqsUpTo({ e \in Entries : e.title \in {"t1", "t2", "t4"} }, MaxFetch)

\* the item lists of the documents that channel b may serve: g2, the item
\* with no guid and the item with the rejected pubDate
ItemListsB == SeqsUpTo({ e \in Entries : e.title \in {"t3", "t5", "t6"} }, MaxFetch)

\* the item lists of the documents a URL may serve
ItemLists(rss_url) == IF rss_url[1] = "a" THEN ItemListsA ELSE ItemListsB

Limits == -1 .. MaxLimit

(***************************************************************************)
(* str.rstrip("/")                                                         *)
(***************************************************************************)
RECURSIVE rstrip(_)
rstrip(s) ==
  IF Len(s) > 0 /\ s[Len(s)] = "/" THEN rstrip(SubSeq(s, 1, Len(s) - 1)) ELSE s

(***************************************************************************)
(* Feed.__init__: the Feed object of a document that holds an rss element. *)
(***************************************************************************)
\* Feed.__init__ keeping the URL as it was given
Feed_unstripped(rss_url, title, items) ==
  [source |-> rss_url, feed_title |-> title, feed_items |-> items]

Feed(rss_url, title, items) ==
  [source |-> rstrip(rss_url), feed_title |-> title, feed_items |-> items]

(***************************************************************************)
(* sorted(items, key=lambda x: parse(x['pubDate']), reverse=True)          *)
(***************************************************************************)
\* the key function raises on this item: KeyError when the item has no
\* pubDate, dateutil's ParserError when parse rejects the string
key_raises(x) == "pubDate" \notin DOMAIN x \/ x.pubDate \notin DOMAIN parse

key_exception(x) == IF "pubDate" \notin DOMAIN x THEN "KeyError" ELSE "ParserError"

key(x) == instant(parse[x.pubDate])

\* sorted_exception of a sort that calls the key only to compare two items
sorted_exception_pairs(items) ==
  IF Len(items) >= 2 /\ \E i \in 1 .. Len(items) : key_raises(items[i])
  THEN "ParserError"
  ELSE None

\* the exception of the first item whose key raises, None if no key raises
sorted_exception(items) ==
  IF \E i \in 1 .. Len(items) : key_raises(items[i])
  THEN key_exception(items[CHOOSE i \in 1 .. Len(items) :
                             /\ key_raises(items[i])
                             /\ \A j \in 1 .. i - 1 : ~ key_raises(items[j])])
  ELSE None

\* insert_at as an ascending sort that is reversed gives it: in front of
\* the elements of equal key
insert_at_reversed(acc, x) ==
  Cardinality({ i \in 1 .. Len(acc) : key(acc[i]) > key(x) }) + 1

\* where x goes in the descending list acc: behind every element whose key is
\* not smaller, so that elements with equal keys keep their order (sorted
\* with reverse=True is stable)
insert_at(acc, x) ==
  Cardinality({ i \in 1 .. Len(acc) : key(acc[i]) >= key(x) }) + 1

insert(acc, x) ==
  LET p == insert_at(acc, x)
  IN  SubSeq(acc, 1, p - 1) \o <<x>> \o SubSeq(acc, p, Len(acc))

RECURSIVE sorted_from(_, _, _)
sorted_from(acc, items, i) ==
  IF i > Len(items) THEN acc ELSE sorted_from(insert(acc, items[i]), items, i + 1)

sorted(items) == sorted_from(<<>>, items, 1)

(***************************************************************************)
(* Feed.get_dict                                                           *)
(***************************************************************************)
\* slice with the test limit >= 0
slice_from_zero(sorted_items, limit) ==
  IF limit >= 0
  THEN SubSeq(sorted_items, 1, IF limit < Len(sorted_items) THEN limit ELSE Len(sorted_items))
  ELSE sorted_items

\* sorted_items[:limit] if limit > 0 else sorted_items
slice(sorted_items, limit) ==
  IF limit > 0
  THEN SubSeq(sorted_items, 1, IF limit < Len(sorted_items) THEN limit ELSE Len(sorted_items))
  ELSE sorted_items

feed_dict(title, source, items) ==
  ("Feed title" :> title) @@ ("Source" :> source) @@ ("items" :> items)

get_dict_exception(self) == sorted_exception(self.feed_items)

\* the dictionary returned when no exception is raised
get_dict(self, limit) ==
  feed_dict(self.feed_title, self.source, slice(sorted(self.feed_items), limit))

(***************************************************************************)
(* Feed.write_to_database                                                  *)
(***************************************************************************)
\* feeds_sources = [feed['Source'] for feed in feed_list]
feeds_sources(feed_list) == { feed_list[i]["Source"] : i \in 1 .. Len(feed_list) }

\* item['guid'] raises KeyError for some item of the list
guid_raises(items) == \E i \in 1 .. Len(items) : "guid" \notin DOMAIN items[i]

\* the list of unique identifiers of the items already in the storage
stored_feed_guids(stored) == { stored["items"][i].guid : i \in 1 .. Len(stored["items"]) }

\* is_new without the comparison of guids
is_new_always(new_item, guids) == TRUE

\* the test that lets a fetched item into the stored list
is_new(new_item, guids) == new_item.guid \notin guids

\* the items appended by the loop over self.get_dict()['items']; the list
\* of stored guids is built once, before the loop
appended_items(new_items, guids) == SelectSeq(new_items, LAMBDA new_item : is_new(new_item, guids))

\* merge_feed where a fetched item takes the place of the stored item of
\* the same guid
merge_feed_update(stored, self) ==
  IF stored["Source"] = self.source
  THEN LET new_items == get_dict(self, 0)["items"]
           latest(item) ==
             IF \E k \in 1 .. Len(new_items) : new_items[k].guid = item.guid
             THEN new_items[CHOOSE k \in 1 .. Len(new_items) : new_items[k].guid = item.guid]
             ELSE item
       IN  [stored EXCEPT !["items"] =
              [k \in 1 .. Len(stored["items"]) |-> latest(stored["items"][k])]
              \o appended_items(new_items, stored_feed_guids(stored))]
  ELSE stored

\* merge_feed where the fetched items take the place of the stored list
merge_feed_replace(stored, self) ==
  IF stored["Source"] = self.source
  THEN [stored EXCEPT !["items"] = get_dict(self, 0)["items"]]
  ELSE stored

\* the body of the loop over feed_list, for one stored feed
merge_feed(stored, self) ==
  IF stored["Source"] = self.source
  THEN [stored EXCEPT !["items"] =
          stored["items"] \o appended_items(get_dict(self, 0)["items"], stored_feed_guids(stored))]
  ELSE stored

\* the exception raised by the loop over feed_list, None if it completes
merge_exception(feed_list, self) ==
  LET same == { i \in 1 .. Len(feed_list) : feed_list[i]["Source"] = self.source }
  IN  IF \E i \in same : guid_raises(feed_list[i]["items"]) THEN "KeyError"
      ELSE IF get_dict_exception(self) # None THEN get_dict_exception(self)
      ELSE IF guid_raises(self.feed_items) THEN "KeyError"
      ELSE None

\* the storage file after the call, and the exception the call ends with
write_to_database(file, self) ==
  IF ~ file.exists
  THEN \* open(storage_path, "w") creates the file before get_dict is called
       IF get_dict_exception(self) # None
       THEN [file |-> Undecodable, exc |-> get_dict_exception(self)]
       ELSE [file |-> File(<<get_dict(self, 0)>>), exc |-> None]
  ELSE IF ~ file.decodable
  THEN \* the JSONDecodeError handler prints the unbound name 'path'
       [file |-> file, exc |-> "NameError"]
  ELSE IF self.source \notin feeds_sources(file.feed_list)
  THEN IF get_dict_exception(self) # None
       THEN [file |-> file, exc |-> get_dict_exception(self)]
       ELSE [file |-> File(Append(file.feed_list, get_dict(self, 0))), exc |-> None]
  ELSE IF merge_exception(file.feed_list, self) # None
       THEN [file |-> file, exc |-> merge_exception(file.feed_list, self)]
       ELSE [file |-> File([i \in 1 .. Len(file.feed_list) |-> merge_feed(file.feed_list[i], self)]),
             exc |-> None]

(***************************************************************************)
(* Feed.read_from_database                                                 *)
(***************************************************************************)
\* what a call gives its caller: a returned list of feed dictionaries, a
\* returned None, or SystemExit raised by sys.exit() after a printed message
Return(feeds) == [kind |-> "return", is_none |-> FALSE, value |-> feeds, printed |-> ""]

ReturnNone == [kind |-> "return", is_none |-> TRUE, value |-> <<>>, printed |-> ""]

SystemExit(message) == [kind |-> "SystemExit", is_none |-> FALSE, value |-> <<>>, printed |-> message]

\* "not source": the argument is None or the empty string
NoSource == <<>>

\* on_date with the day taken on the UTC clock
on_date_utc(item, day) == instant(parse[item.pubDate]) \div 24 = day

\* parse(item['pubDate']).date() == datetime.strptime(date, "%Y%m%d").date()
on_date(item, day) == date(parse[item.pubDate]) = day

items_on_date(stored, day) == SelectSeq(stored["items"], LAMBDA item : on_date(item, day))

new_dict(stored, day) ==
  feed_dict(stored["Feed title"], stored["Source"], sorted(items_on_date(stored, day)))

\* the loop over feeds_list when no source is given
RECURSIVE output_list(_, _, _)
output_list(feeds_list, day, i) ==
  IF i > Len(feeds_list) THEN <<>>
  ELSE (IF items_on_date(feeds_list[i], day) # <<>>
        THEN <<new_dict(feeds_list[i], day)>> ELSE <<>>)
       \o output_list(feeds_list, day, i + 1)

\* the loop over feeds_list when a source is given: it ends at the first
\* feed of that source, and falls off the end of the function otherwise
RECURSIVE by_source(_, _, _, _)
by_source(feeds_list, day, source, i) ==
  IF i > Len(feeds_list) THEN ReturnNone
  ELSE IF feeds_list[i]["Source"] = source
  THEN IF Len(items_on_date(feeds_list[i], day)) = 0
       THEN SystemExit("No news were found in storage for feed")
       ELSE Return(<<new_dict(feeds_list[i], day)>>)
  ELSE by_source(feeds_list, day, source, i + 1)

\* load_failure with one handler for both exceptions
load_failure_same(file) == SystemExit("No data in the file")

\* the except clauses of the load: FileNotFoundError, JSONDecodeError
load_failure(file) ==
  IF ~ file.exists THEN SystemExit("No storage detected")
  ELSE SystemExit("No data in the file")

read_from_database(day, file, source) ==
  IF ~ file.exists \/ ~ file.decodable THEN load_failure(file)
  ELSE IF source = NoSource
  THEN IF output_list(file.feed_list, day, 1) # <<>>
       THEN Return(output_list(file.feed_list, day, 1))
       ELSE SystemExit("No news were found in storage for all feeds")
  ELSE by_source(file.feed_list, day, source, 1)

(***************************************************************************)
(* Feed.print_data_json, Feed.get_text_from_storage                        *)
(***************************************************************************)
\* feed['items'] = feed['items'][:limit], for every feed of the list
limited(feed_list, limit) ==
  [i \in 1 .. Len(feed_list) |-> [feed_list[i] EXCEPT !["items"] = slice(@, limit)]]

\* print_data_json: json.dumps(None) prints null, and only the loop over
\* feed_list raises the TypeError that the method turns into sys.exit()
print_data_json(returned, limit) ==
  IF returned.is_none
  THEN IF limit > 0 THEN SystemExit("There is no data for this source in the storage.")
       ELSE ReturnNone
  ELSE Return(limited(returned.value, limit))

\* get_text_from_storage: the loop that builds the text raises the
\* TypeError for every limit
get_text_from_storage(returned, limit) ==
  IF returned.is_none
  THEN SystemExit("There is no data for this source in the storage.")
  ELSE Return(limited(returned.value, limit))

(***************************************************************************)
(* The state: the storage file, the Feed object of the running invocation, *)
(* the list returned by read_from_database (feeds_from_database), what the *)
(* last printer printed, the last call with its arguments and the          *)
(* exception it ended with, and for every source the guids of the feeds    *)
(* that write_to_database has merged without an exception.  The command    *)
(* line and the position of main (run), the processes that write the       *)
(* storage file step by step (procs) and the string given to html_to_text  *)
(* (text) are used by the specifications further down.                     *)
(***************************************************************************)
\* no invocation of main is running
NoRun == [pc |-> "idle"]

\* no process is inside write_to_database
NoProcs == <<>>

NoText == <<>>

NoFeed == Feed(<<>>, "", <<>>)

Nothing == [kind |-> "none", is_none |-> TRUE, value |-> <<>>, printed |-> ""]

Raised(exc) == [kind |-> exc, is_none |-> FALSE, value |-> <<>>, printed |-> ""]

Call(op, exc, day, source, limit) ==
  [op |-> op, exc |-> exc, day |-> day, source |-> source, limit |-> limit]

\* the sources of the modelled URLs, and one that is never fetched
FetchedSources == { rstrip(u) : u \in Urls }

Sources == FetchedSources \cup { <<"c">> }

\* the guids of the items of a list that have one
guids_of(items) == { items[i].guid : i \in { j \in 1 .. Len(items) : "guid" \in DOMAIN items[j] } }

Init ==
  /\ store = Absent
  /\ feed = NoFeed
  /\ last = Call("start", None, 0, NoSource, 0)
  /\ result = Nothing
  /\ output = Nothing
  /\ merged = [s \in FetchedSources |-> {}]
  /\ run = NoRun
  /\ procs = NoProcs
  /\ text = NoText

\* new_feed = Feed(rss_url) followed by new_feed.write_to_database(storage_file),
\* as main does when it is given a source and no date
WriteToDatabase(rss_url, items) ==
  \E self \in { Feed(rss_url, ChannelTitle(rss_url), items) } :
  \E w \in { write_to_database(store, self) } :
      /\ store' = w.file
      /\ last' = Call("write_to_database", w.exc, 0, rss_url, 0)
      /\ merged' = IF w.exc = None
                   THEN [merged EXCEPT ![self.source] = @ \cup guids_of(items)]
                   ELSE merged
      /\ result' = Nothing
      /\ output' = Nothing
      /\ UNCHANGED <<feed, run, procs, text>>

Next ==
  \E u \in Urls : \E items \in ItemLists(u) : WriteToDatabase(u, items)

Spec == Init /\ [][Next]_vars

(***************************************************************************)
(* Properties of write_to_database, checked under Spec.                    *)
(***************************************************************************)
\* the Feed objects that the modelled URLs give
Fetches == { Feed(u, ChannelTitle(u), items) : u \in {<<"a">>}, items \in ItemListsA }
           \cup { Feed(u, ChannelTitle(u), items) : u \in {<<"b", "/", "/">>}, items \in ItemListsB }

\* how many times x occurs in the list
Count(x, items) == Cardinality({ k \in 1 .. Len(items) : items[k] = x })

\* the two lists hold the same items, each the same number of times
SameItems(xs, ys) ==
  /\ Len(xs) = Len(ys)
  /\ \A k \in 1 .. Len(xs) : Count(xs[k], xs) = Count(xs[k], ys)

IsPrefix(xs, ys) == Len(xs) <= Len(ys) /\ SubSeq(ys, 1, Len(xs)) = xs

Stored(file, source) == source \in feeds_sources(file.feed_list)

\* the stored feed of a source
FeedOf(file, source) ==
  file.feed_list[CHOOSE i \in 1 .. Len(file.feed_list) : file.feed_list[i]["Source"] = source]

\* C1: merge is idempotent: from every store and for every fetched feed,
\* a second write_to_database of the same feed leaves the storage file as
\* the first one left it
C1_MergeIdempotent ==
  \A self \in Fetches :
    \A w \in { write_to_database(store, self) } :
      write_to_database(w.file, self).file = w.file

\* C1 witness: a feed with items has been merged, and merging it again
\* completes and leaves the store as it is
C1_Witness ==
  /\ last.op = "write_to_database" /\ last.exc = None
  /\ store.decodable
  /\ \E self \in Fetches :
       /\ Len(self.feed_items) >= 2
       /\ Stored(store, self.source)
       /\ guids_of(self.feed_items) \subseteq guids_of(FeedOf(store, self.source)["items"])
       /\ write_to_database(store, self) = [file |-> store, exc |-> None]

\* the fetched items whose guid is not stored, and those whose guid is
NewOf(self, stored) ==
  { k \in 1 .. Len(self.feed_items) :
      "guid" \in DOMAIN self.feed_items[k]
      /\ self.feed_items[k].guid \notin guids_of(stored["items"]) }

SeenOf(self, stored) ==
  { k \in 1 .. Len(self.feed_items) :
      "guid" \in DOMAIN self.feed_items[k]
      /\ self.feed_items[k].guid \in guids_of(stored["items"]) }

\* C2: a merge into a stored source keeps every other feed and every stored
\* item of the source as they are, in place, and a merge that completes
\* appends exactly the fetched items whose guid was not stored; a merge that
\* raises changes nothing
C2_MergeAddsOnlyNew ==
  \A self \in Fetches :
    (store.decodable /\ Stored(store, self.source)) =>
      \A w \in { write_to_database(store, self) } :
        /\ w.file.exists /\ w.file.decodable
        /\ Len(w.file.feed_list) = Len(store.feed_list)
        /\ w.exc # None => w.file = store
        /\ \A i \in 1 .. Len(store.feed_list) :
             LET old == store.feed_list[i]
                 new == w.file.feed_list[i]
                 added == SubSeq(new["items"], Len(old["items"]) + 1, Len(new["items"]))
             IN  IF old["Source"] # self.source THEN new = old
                 ELSE /\ new["Source"] = old["Source"]
                      /\ new["Feed title"] = old["Feed title"]
                      /\ IsPrefix(old["items"], new["items"])
                      /\ w.exc = None =>
                           /\ Len(added) = Cardinality(NewOf(self, old))
                           /\ \A k \in NewOf(self, old) :
                                Count(self.feed_items[k], added)
                                  = Count(self.feed_items[k], self.feed_items)
                           /\ \A k \in 1 .. Len(added) :
                                \E n \in NewOf(self, old) : added[k] = self.feed_items[n]

\* C2 witness: the store holds two feeds, and a fetch of a stored source
\* brings one item of a new guid and one item of a stored guid under a
\* title that differs from the stored one
C2_Witness ==
  /\ last.op = "write_to_database" /\ last.exc = None
  /\ store.decodable /\ Len(store.feed_list) = 2
  /\ \E self \in Fetches :
       /\ Stored(store, self.source)
       /\ write_to_database(store, self).exc = None
       /\ NewOf(self, FeedOf(store, self.source)) # {}
       /\ \E k \in SeenOf(self, FeedOf(store, self.source)) :
            \E n \in 1 .. Len(FeedOf(store, self.source)["items"]) :
              LET item == FeedOf(store, self.source)["items"][n]
              IN  item.guid = self.feed_items[k].guid /\ item.title # self.feed_items[k].title

\* C3: no two items of one stored feed have the same guid
C3_GuidUnique ==
  store.decodable =>
    \A i \in 1 .. Len(store.feed_list) :
      LET items == store.feed_list[i]["items"]
      IN  \A m, n \in 1 .. Len(items) :
            (m # n /\ "guid" \in DOMAIN items[m] /\ "guid" \in DOMAIN items[n])
              => items[m].guid # items[n].guid

\* C4: no two stored feeds have the same Source, no stored Source ends with
\* a slash, and from every store the merge of a document fetched from a URL
\* with a trailing slash gives the same storage file as the merge of that
\* document fetched from the URL without it
C4_SourceUnique ==
  /\ store.decodable =>
       \A i, j \in 1 .. Len(store.feed_list) :
         /\ i # j => store.feed_list[i]["Source"] # store.feed_list[j]["Source"]
         /\ store.feed_list[i]["Source"] \in { <<"a">>, <<"b">> }
  /\ \A items \in ItemListsA :
       write_to_database(store, Feed(<<"a", "/">>, ChannelTitle(<<"a", "/">>), items))
         = write_to_database(store, Feed(<<"a">>, ChannelTitle(<<"a">>), items))

\* C4 witness: both sources are stored, the last merge was fetched from the
\* URL with the trailing slash, and it added a guid to the feed that the
\* store keeps under the URL without it
C4_Witness ==
  /\ last.op = "write_to_database" /\ last.exc = None
  /\ last.source = <<"a", "/">>
  /\ store.decodable /\ Len(store.feed_list) = 2
  /\ Stored(store, <<"a">>)
  /\ Cardinality(guids_of(FeedOf(store, <<"a">>)["items"])) = 2

\* C5: the store only accumulates.  The guids stored for a source are the
\* guids of all the fetches merged into it without an exception; the first
\* merge into an absent store that completes leaves exactly the fetched feed
\* with all its items; and from every store a merge keeps the stored feeds
\* and their items where they are, a merge of a new source that completes
\* appends the fetched feed with all its items, and a merge of a stored
\* source that completes leaves it with its guids and those of the fetch
C5_StoreAccumulates ==
  /\ \A s \in FetchedSources :
       IF store.decodable /\ Stored(store, s)
       THEN guids_of(FeedOf(store, s)["items"]) = merged[s]
       ELSE merged[s] = {}
  /\ \A self \in Fetches :
       \A w \in { write_to_database(store, self) } :
         /\ (~ store.exists /\ w.exc = None) =>
              /\ w.file.exists /\ w.file.decodable /\ Len(w.file.feed_list) = 1
              /\ w.file.feed_list[1]["Source"] = self.source
              /\ w.file.feed_list[1]["Feed title"] = self.feed_title
              /\ SameItems(w.file.feed_list[1]["items"], self.feed_items)
         /\ store.decodable =>
              /\ w.file.exists /\ w.file.decodable
              /\ Len(w.file.feed_list) >= Len(store.feed_list)
              /\ \A i \in 1 .. Len(store.feed_list) :
                   /\ w.file.feed_list[i]["Source"] = store.feed_list[i]["Source"]
                   /\ IsPrefix(store.feed_list[i]["items"], w.file.feed_list[i]["items"])
         /\ (store.decodable /\ w.exc = None /\ ~ Stored(store, self.source)) =>
              /\ Len(w.file.feed_list) = Len(store.feed_list) + 1
              /\ w.file.feed_list[Len(w.file.feed_list)]["Source"] = self.source
              /\ SameItems(w.file.feed_list[Len(w.file.feed_list)]["items"], self.feed_items)
         /\ (store.decodable /\ w.exc = None /\ Stored(store, self.source)) =>
              /\ Len(w.file.feed_list) = Len(store.feed_list)
              /\ guids_of(FeedOf(w.file, self.source)["items"])
                   = guids_of(FeedOf(store, self.source)["items"]) \cup guids_of(self.feed_items)

\* C5 witness: g1 was merged first and g3 by a later merge, and g3 stands
\* behind g1 although its pubDate is the later one
C5_Witness ==
  /\ last.op = "write_to_database" /\ last.exc = None
  /\ store.decodable /\ Stored(store, <<"a">>)
  /\ merged[<<"a">>] = {"g1", "g3"}
  /\ LET items == FeedOf(store, <<"a">>)["items"]
     IN  /\ Len(items) = 2
         /\ items[1].guid = "g1" /\ items[2].guid = "g3"
         /\ key(items[1]) < key(items[2])

\* C13: every item of the storage file has a guid, the link of the item when
\* its <item> element had no <guid>, and no write_to_database ends in the
\* KeyError of a missing guid
C13_GuidFromLink ==
  /\ store.decodable =>
       \A i \in 1 .. Len(store.feed_list) :
         \A k \in 1 .. Len(store.feed_list[i]["items"]) :
           LET item == store.feed_list[i]["items"][k]
           IN  /\ "guid" \in DOMAIN item
               /\ "link" \in DOMAIN item => item.guid = item.link
  /\ last.op = "write_to_database" => last.exc # "KeyError"

\* the fetched documents of a URL with an <item> whose pubDate is missing
\* or rejected by parse
BadDateLists(rss_url) ==
  { items \in ItemLists(rss_url) : \E k \in 1 .. Len(items) : key_raises(items[k]) }

\* C14: get_dict raises for every feed that holds an item without a pubDate
\* that parse accepts, write_to_database of such a feed ends in an exception
\* and adds nothing to the stored feeds, and every stored item has a pubDate
\* that parse accepts
C14_BadDateIsError ==
  /\ store.decodable =>
       \A i \in 1 .. Len(store.feed_list) :
         \A k \in 1 .. Len(store.feed_list[i]["items"]) :
           ~ key_raises(store.feed_list[i]["items"][k])
  /\ \A u \in Urls : \A items \in BadDateLists(u) :
       \A self \in { Feed(u, ChannelTitle(u), items) } :
       \A w \in { write_to_database(store, self) } :
         /\ get_dict_exception(self) # None
         /\ w.exc # None
         /\ w.file.decodable => w.file = store

\* C14 witness: a document with a rejected pubDate was fetched for a source
\* that is stored, and write_to_database ended in the ParserError
C14_Witness ==
  /\ last.op = "write_to_database"
  /\ last.exc = "ParserError"
  /\ store.decodable
  /\ Stored(store, rstrip(last.source))

\* C15: a write_to_database call that ends in an exception leaves the
\* storage file as it was before the call, and the file is never left empty
C15_FailedWriteKeepsStore ==
  [][ (last'.op = "write_to_database" /\ last'.exc # None) =>
        /\ store' = store
        /\ store' # Undecodable ]_vars

\* C19: on a storage file that exists and cannot be decoded,
\* write_to_database of a fetched feed ends without an exception and leaves
\* a file that holds that feed alone, with all its items
C19_RecoversFromUndecodable ==
  (store.exists /\ ~ store.decodable) =>
    \A self \in Fetches :
      \A w \in { write_to_database(store, self) } :
        /\ w.exc = None
        /\ w.file = File(<<get_dict(self, 0)>>)

(***************************************************************************)
(* The invocations that print: a live one, which holds the Feed object of  *)
(* a fetched document, or one with a date, which reads a storage file that *)
(* earlier invocations have left.                                          *)
(***************************************************************************)
\* the storage files that no, one or two invocations with a source can leave
QueryStores ==
  { Absent }
  \cup { write_to_database(Absent, f1).file : f1 \in Fetches }
  \cup { write_to_database(write_to_database(Absent, f1).file, f2).file : f1, f2 \in Fetches }

InitQuery ==
  /\ \/ store \in QueryStores /\ feed = NoFeed /\ last = Call("start", None, 0, NoSource, 0)
     \/ store = Absent /\ feed \in Fetches /\ last = Call("Feed", None, 0, NoSource, 0)
  /\ result = Nothing
  /\ output = Nothing
  /\ merged = [s \in FetchedSources |->
                 IF store.decodable /\ Stored(store, s)
                 THEN guids_of(FeedOf(store, s)["items"]) ELSE {}]
  /\ run = NoRun
  /\ procs = NoProcs
  /\ text = NoText

\* new_feed.print_json_from_feed(limit), new_feed.print_text_from_feed(limit):
\* both print the dictionary of get_dict(limit)
GetDict(limit) ==
  /\ last.op \in {"Feed", "get_dict"}
  /\ output' = IF get_dict_exception(feed) # None THEN Raised(get_dict_exception(feed))
               ELSE Return(<<get_dict(feed, limit)>>)
  /\ last' = Call("get_dict", get_dict_exception(feed), 0, NoSource, limit)
  /\ UNCHANGED <<store, feed, result, merged, run, procs, text>>

\* feeds_from_database = Feed.read_from_database(date, storage_file, source)
ReadFromDatabase(day, source) ==
  /\ last.op \notin {"Feed", "get_dict"}
  /\ result' = read_from_database(day, store, source)
  /\ last' = Call("read_from_database", None, day, source, 0)
  /\ output' = Nothing
  /\ UNCHANGED <<store, feed, merged, run, procs, text>>

\* Feed.print_data_json(feeds_from_database, limit): the slices are assigned
\* to the dictionaries of the list that was passed
PrintDataJson(limit) ==
  /\ last.op \in {"read_from_database", "print_data_json", "get_text_from_storage",
                 "create_html", "create_fb2"}
  /\ result.kind = "return"
  /\ output' = print_data_json(result, limit)
  /\ result' = IF result.is_none \/ limit <= 0 THEN result
               ELSE Return(limited(result.value, limit))
  /\ last' = [last EXCEPT !.op = "print_data_json", !.limit = limit]
  /\ UNCHANGED <<store, feed, merged, run, procs, text>>

\* print(Feed.get_text_from_storage(feeds_from_database, limit))
GetTextFromStorage(limit) ==
  /\ last.op \in {"read_from_database", "print_data_json", "get_text_from_storage",
                 "create_html", "create_fb2"}
  /\ result.kind = "return"
  /\ output' = get_text_from_storage(result, limit)
  /\ result' = IF result.is_none \/ limit <= 0 THEN result
               ELSE Return(limited(result.value, limit))
  /\ last' = [last EXCEPT !.op = "get_text_from_storage", !.limit = limit]
  /\ UNCHANGED <<store, feed, merged, run, procs, text>>

NextQuery ==
  \/ \E limit \in Limits : GetDict(limit)
  \/ \E day \in Dates, source \in Sources \cup {NoSource} : ReadFromDatabase(day, source)
  \/ \E limit \in Limits : PrintDataJson(limit)
  \/ \E limit \in Limits : GetTextFromStorage(limit)

SpecQuery == InitQuery /\ [][NextQuery]_vars

(***************************************************************************)
(* Properties of read_from_database, get_dict and the printers, checked    *)
(* under SpecQuery.                                                        *)
(***************************************************************************)
\* the stored items of a feed whose pubDate, on its own clock, is of the day
StoredOnDay(stored, day) ==
  SelectSeq(stored["items"], LAMBDA item : parse[item.pubDate].day = day)

\* the stored feeds that a query looks at and that have an item of the day
InScope(day, source) ==
  { i \in 1 .. Len(store.feed_list) :
      /\ source = NoSource \/ store.feed_list[i]["Source"] = source
      /\ StoredOnDay(store.feed_list[i], day) # <<>> }

\* C6: the list that read_from_database returns holds, in the order of the
\* store, one feed for every stored feed in scope that has an item of the
\* requested day, under its title and source, with exactly the stored items
\* of that day, and so no feed without items
C6_ReadByDate ==
  (last.op = "read_from_database" /\ result.kind = "return" /\ ~ result.is_none) =>
    LET scope == InScope(last.day, last.source)
    IN  /\ Len(result.value) = Cardinality(scope)
        /\ \A k \in 1 .. Len(result.value) :
             /\ result.value[k]["items"] # <<>>
             /\ \E i \in scope :
                  /\ Cardinality({ j \in scope : j < i }) = k - 1
                  /\ result.value[k]["Source"] = store.feed_list[i]["Source"]
                  /\ result.value[k]["Feed title"] = store.feed_list[i]["Feed title"]
                  /\ SameItems(result.value[k]["items"], StoredOnDay(store.feed_list[i], last.day))

\* C6 witness: a query with no source on a store of two feeds returns one
\* feed, because the other has no item of the day, and leaves out an item
\* that the returned feed stores under another day
C6_Witness ==
  /\ last.op = "read_from_database" /\ last.source = NoSource
  /\ store.decodable /\ Len(store.feed_list) = 2
  /\ result.kind = "return" /\ ~ result.is_none
  /\ Len(result.value) = 1
  /\ Len(result.value[1]["items"]) = 1
  /\ Len(FeedOf(store, result.value[1]["Source"])["items"]) = 2

\* C7: a query that no stored item satisfies ends with the NoNewsFound
\* message and SystemExit, and returns nothing
C7_NoMatchSignalled ==
  (last.op = "read_from_database" /\ store.decodable /\ InScope(last.day, last.source) = {}) =>
    /\ result.kind = "SystemExit"
    /\ result.printed \in { "No news were found in storage for all feeds",
                            "No news were found in storage for feed" }

\* the list is in the order of the sort: no item stands in front of an item
\* of a later pubDate
Descending(items) ==
  \A m, n \in 1 .. Len(items) :
    m < n => instant(parse[items[m].pubDate]) >= instant(parse[items[n].pubDate])

\* the items of one pubDate stand in the output as they stood in the input
Stable(out, original) ==
  \A item \in { out[k] : k \in 1 .. Len(out) } \cup { original[k] : k \in 1 .. Len(original) } :
    LET same(x) == instant(parse[x.pubDate]) = instant(parse[item.pubDate])
    IN  SelectSeq(out, same) = SelectSeq(original, same)

\* C8: the items that get_dict returns, and the items of every feed that
\* read_from_database returns, are in the order of non-increasing pubDate,
\* and items of equal pubDate are in the order of the document or the store
C8_DescendingByDate ==
  /\ (last.op = "get_dict" /\ output.kind = "return") =>
       /\ Descending(output.value[1]["items"])
       /\ last.limit <= 0 => Stable(output.value[1]["items"], feed.feed_items)
  /\ (last.op = "read_from_database" /\ result.kind = "return" /\ ~ result.is_none) =>
       \A k \in 1 .. Len(result.value) :
         /\ Descending(result.value[k]["items"])
         /\ Stable(result.value[k]["items"],
                   StoredOnDay(FeedOf(store, result.value[k]["Source"]), last.day))

\* C8 witness: a query returns in descending order three items of one day,
\* two of them of one pubDate, that the store holds in another order
C8_Witness ==
  /\ last.op = "read_from_database"
  /\ result.kind = "return" /\ ~ result.is_none
  /\ \E k \in 1 .. Len(result.value) :
       LET out == result.value[k]["items"]
           original == StoredOnDay(FeedOf(store, result.value[k]["Source"]), last.day)
       IN  /\ Len(out) >= 2
           /\ out # original
           /\ \E m, n \in 1 .. Len(out) :
                m < n /\ instant(parse[out[m].pubDate]) = instant(parse[out[n].pubDate])

\* the first min(limit, n) items of a list of n items when limit > 0, the
\* whole list otherwise
Truncated(items, limit) ==
  IF limit <= 0 \/ limit >= Len(items) THEN items
  ELSE [k \in 1 .. limit |-> items[k]]

\* C9: get_dict(limit) gives the truncation of the sorted items of the feed,
\* and a printer of the storage path prints, for every feed of the list it
\* is given, the truncation of that feed's items by the same rule
C9_LimitTruncates ==
  [][ /\ (last'.op = "get_dict" /\ output'.kind = "return") =>
           output'.value[1]["items"] = Truncated(sorted(feed.feed_items), last'.limit)
      /\ (last'.op \in {"print_data_json", "get_text_from_storage"} /\ ~ result.is_none) =>
           /\ output'.kind = "return"
           /\ Len(output'.value) = Len(result.value)
           /\ \A k \in 1 .. Len(result.value) :
                /\ output'.value[k]["items"] = Truncated(result.value[k]["items"], last'.limit)
                /\ output'.value[k]["Source"] = result.value[k]["Source"] ]_vars

\* C9 witness: with limit 1 a printer of the storage path has printed, of a
\* feed that stores two items of the day, the later one, which stands
\* second in the store
C9_Witness ==
  /\ last.op \in {"print_data_json", "get_text_from_storage"}
  /\ last.limit = 1
  /\ output.kind = "return" /\ ~ output.is_none
  /\ \E k \in 1 .. Len(output.value) :
       LET on_day == StoredOnDay(FeedOf(store, output.value[k]["Source"]), last.day)
       IN  /\ Len(on_day) = 2
           /\ output.value[k]["items"] = <<on_day[2]>>
           /\ key(on_day[1]) < key(on_day[2])

\* C10: reading a storage file that does not exist and reading one that
\* json.load cannot decode both end in SystemExit, each after its own
\* message, and no other read prints either message
C10_LoadFailuresDistinct ==
  last.op = "read_from_database" =>
    /\ ~ store.exists =>
         result.kind = "SystemExit" /\ result.printed = "No storage detected"
    /\ (store.exists /\ ~ store.decodable) =>
         result.kind = "SystemExit" /\ result.printed = "No data in the file"
    /\ store.decodable =>
         result.printed \notin { "No storage detected", "No data in the file" }

\* C10 witness: a query has read the empty file that a failed first write
\* left
C10_Witness ==
  /\ last.op = "read_from_database"
  /\ store = Undecodable
  /\ result = SystemExit("No data in the file")

(***************************************************************************)
(* create_html, create_fb2                                                 *)
(***************************************************************************)
\* create_list_of_feeds gives None for None, and both renderers loop over
\* it inside the try: TypeError, a printed message and sys.exit(); for a
\* list, the slices are assigned to the dictionaries of the list
create_html(returned, limit) ==
  IF returned.is_none THEN SystemExit("There is no data for this source.")
  ELSE Return(limited(returned.value, limit))

create_fb2(returned, limit) ==
  IF returned.is_none THEN SystemExit("There is no data for this source.")
  ELSE Return(limited(returned.value, limit))

(***************************************************************************)
(* main: one invocation of the command line, step by step.                 *)
(***************************************************************************)
\* the exit status of the process: sys.exit() is called with no argument
sys_exit == 0

\* main returns to the console script
main_returns == 0

\* an exception that nothing catches ends the interpreter
uncaught_exception == 1

\* main is still running
Running == -1

\* the --date strings that datetime.strptime(date_string, "%Y%m%d") accepts,
\* with the day each one names
strptime ==
  [s \in {"20211001", "20211002", "20211003"} |->
     CASE s = "20211001" -> 1 [] s = "20211002" -> 2 [] s = "20211003" -> 3]

\* the --date arguments: none, one that strptime rejects, the accepted ones
DateArgs == { "", "2021-10-02" } \cup DOMAIN strptime

is_valid_date(date_string) == date_string \in DOMAIN strptime

\* the exceptions of requests.get and of the missing rss element that
\* Feed.__init__ catches
FetchErrors == { "MissingSchema", "InvalidSchema", "ConnectionError", "NotRssLink" }

\* what requests.get(rss_url) may give: an exception, a document without an
\* rss element, or an rss document with its items
requests_get(rss_url) ==
  { [raises |-> e, rss |-> FALSE, items |-> <<>>] :
      e \in { "MissingSchema", "InvalidSchema", "ConnectionError" } }
  \cup { [raises |-> None, rss |-> FALSE, items |-> <<>>] }
  \cup { [raises |-> None, rss |-> TRUE, items |-> items] : items \in ItemLists(rss_url) }

\* the exception that Feed.__init__ catches for a response, None if the
\* Feed object is built
Feed_exception(response) ==
  IF response.raises # None THEN response.raises
  ELSE IF ~ response.rss THEN "NotRssLink"
  ELSE None

\* the exception behind the message that read_from_database printed
read_exception(returned) ==
  IF returned.printed = "No storage detected" THEN "FileNotFoundError"
  ELSE IF returned.printed = "No data in the file" THEN "JSONDecodeError"
  ELSE "NoNewsFound"

\* the storage files that an earlier invocation with a source may have left:
\* none, the empty file of a failed first write, or one feed of one item
MainStores ==
  { Absent, Undecodable }
  \cup { write_to_database(Absent, Feed(u, ChannelTitle(u), <<e>>)).file :
           u \in Urls, e \in Entries }

\* args = parser.parse_args()
Args ==
  [source : { NoSource } \cup Urls, date : DateArgs, limit : Limits,
   json : BOOLEAN, to_html : BOOLEAN, to_fb2 : BOOLEAN]

InitMain ==
  /\ store \in MainStores
  /\ feed = NoFeed
  /\ last = Call("start", None, 0, NoSource, 0)
  /\ result = Nothing
  /\ output = Nothing
  /\ merged = [s \in FetchedSources |-> {}]
  /\ \E args \in Args :
       run = [pc |-> "main", args |-> args, fetches |-> 0, reads |-> 0,
              rendered |-> {}, printed |-> {}, error |-> None, status |-> Running]
  /\ procs = NoProcs
  /\ text = NoText

\* print(message); sys.exit()
Exits(exc, message) ==
  [run EXCEPT !.pc = "exit", !.error = exc, !.printed = @ \cup {message},
              !.status = sys_exit]

\* an exception leaves main
Propagates(exc) ==
  [run EXCEPT !.pc = "exit", !.error = exc, !.status = uncaught_exception]

\* the statement of main that follows the one at pc
after(pc, args) ==
  IF pc \in {"write_to_database", "read_from_database"} /\ args.to_html THEN "create_html"
  ELSE IF pc \in {"write_to_database", "read_from_database", "create_html"} /\ args.to_fb2
  THEN "create_fb2"
  ELSE IF pc = "print" THEN "exit"
  ELSE "print"

\* main whose if/elif chain prints the usage text unless exactly one of
\* source and date is given
Main_exactly_one ==
  /\ run.pc = "main"
  /\ \E source \in { rstrip(run.args.source) } :
       run' =
         IF (source = NoSource) = (run.args.date = "")
         THEN [run EXCEPT !.args.source = source, !.pc = "exit",
                          !.printed = @ \cup {"usage"}, !.status = main_returns]
         ELSE IF run.args.date = ""
         THEN [run EXCEPT !.args.source = source, !.pc = "Feed"]
         ELSE IF ~ is_valid_date(run.args.date)
         THEN [run EXCEPT !.args.source = source, !.pc = "exit",
                          !.printed = @ \cup {"incorrect date"}, !.status = main_returns]
         ELSE [run EXCEPT !.args.source = source, !.pc = "read_from_database"]
  /\ UNCHANGED <<store, feed, last, result, output, merged, procs, text>>

\* the first statements of main: the source loses its trailing slashes, and
\* the if/elif chain picks the usage text, the fetch or the query
Main ==
  /\ run.pc = "main"
  /\ \E source \in { rstrip(run.args.source) } :
       run' =
         IF source = NoSource /\ run.args.date = ""
         THEN [run EXCEPT !.args.source = source, !.pc = "exit",
                          !.printed = @ \cup {"usage"}, !.status = main_returns]
         ELSE IF run.args.date = ""
         THEN [run EXCEPT !.args.source = source, !.pc = "Feed"]
         ELSE IF ~ is_valid_date(run.args.date)
         THEN [run EXCEPT !.args.source = source, !.pc = "exit",
                          !.printed = @ \cup {"incorrect date"}, !.status = main_returns]
         ELSE [run EXCEPT !.args.source = source, !.pc = "read_from_database"]
  /\ UNCHANGED <<store, feed, last, result, output, merged, procs, text>>

\* Feed.__init__ that calls requests.get again after an exception
Feed_init_retry(r, response) ==
  IF Feed_exception(response) # None
  THEN [r EXCEPT !.fetches = @ + 1, !.error = Feed_exception(response)]
  ELSE [r EXCEPT !.pc = "write_to_database", !.fetches = @ + 1, !.error = None]

\* the invocation after Feed.__init__: requests.get is called once, and each
\* except clause prints the exception and calls sys.exit()
Feed_init(r, response) ==
  IF Feed_exception(response) # None
  THEN [r EXCEPT !.pc = "exit", !.fetches = @ + 1, !.error = Feed_exception(response),
                 !.printed = @ \cup {Feed_exception(response)}, !.status = sys_exit]
  ELSE [r EXCEPT !.pc = "write_to_database", !.fetches = @ + 1]

\* new_feed = Feed(args.source)
MainFeed ==
  /\ run.pc = "Feed"
  /\ \E response \in requests_get(run.args.source) :
       /\ run' = Feed_init(run, response)
       /\ feed' = IF Feed_exception(response) # None THEN feed
                  ELSE Feed(run.args.source, ChannelTitle(run.args.source), response.items)
       /\ last' = Call("Feed", Feed_exception(response), 0, run.args.source, 0)
  /\ UNCHANGED <<store, result, output, merged, procs, text>>

\* new_feed.write_to_database(storage_file)
MainWrite ==
  /\ run.pc = "write_to_database"
  /\ \E w \in { write_to_database(store, feed) } :
       /\ store' = w.file
       /\ run' = IF w.exc = None THEN [run EXCEPT !.pc = after(run.pc, run.args)]
                 ELSE Propagates(w.exc)
       /\ merged' = IF w.exc = None
                    THEN [merged EXCEPT ![feed.source] = @ \cup guids_of(feed.feed_items)]
                    ELSE merged
       /\ last' = Call("write_to_database", w.exc, 0, run.args.source, 0)
  /\ UNCHANGED <<feed, result, output, procs, text>>

\* what main passes to the renderers: a new dictionary of new_feed.get_dict()
\* when it fetched, feeds_from_database when it read the storage
feeds_source == IF run.args.date = "" THEN Return(<<get_dict(feed, 0)>>) ELSE result

\* one renderer has run: on sys.exit() the invocation ends; otherwise the
\* list read from the storage holds the slices
Rendered(name, r) ==
  /\ run' = IF r.kind = "SystemExit" THEN Exits("TypeError", r.printed)
            ELSE [run EXCEPT !.pc = after(run.pc, run.args), !.rendered = @ \cup {name}]
  /\ result' = IF r.kind = "SystemExit" \/ run.args.date = "" THEN result ELSE r
  /\ last' = [last EXCEPT !.op = name, !.limit = run.args.limit]
  /\ UNCHANGED <<store, feed, output, merged, procs, text>>

\* create_html(feeds_source, args.to_html, args.limit)
MainCreateHtml ==
  /\ run.pc = "create_html"
  /\ Rendered("create_html", create_html(feeds_source, run.args.limit))

\* create_fb2(feeds_source, args.to_fb2, args.limit)
MainCreateFb2 ==
  /\ run.pc = "create_fb2"
  /\ Rendered("create_fb2", create_fb2(feeds_source, run.args.limit))

\* feeds_from_database = Feed.read_from_database(args.date, storage_file, args.source)
MainRead ==
  /\ run.pc = "read_from_database"
  /\ \E r \in { read_from_database(strptime[run.args.date], store, run.args.source) } :
       /\ result' = r
       /\ run' = IF r.kind = "SystemExit"
                 THEN [Exits(read_exception(r), r.printed) EXCEPT !.reads = @ + 1]
                 ELSE [run EXCEPT !.pc = after(run.pc, run.args), !.reads = @ + 1]
  /\ last' = Call("read_from_database", None, strptime[run.args.date], run.args.source, 0)
  /\ UNCHANGED <<store, feed, output, merged, procs, text>>

\* the output to stdout: print_json_from_feed or print_text_from_feed of the
\* fetched feed, print_data_json or get_text_from_storage of the list read
MainPrint ==
  /\ run.pc = "print"
  /\ \E r \in { IF run.args.date = "" THEN Return(<<get_dict(feed, run.args.limit)>>)
                ELSE IF run.args.json THEN print_data_json(result, run.args.limit)
                ELSE get_text_from_storage(result, run.args.limit) } :
       /\ output' = r
       /\ run' = IF r.kind = "SystemExit" THEN Exits("TypeError", r.printed)
                 ELSE [run EXCEPT !.pc = "exit", !.status = main_returns]
       /\ result' = IF r.kind = "SystemExit" \/ r.is_none \/ run.args.date = "" THEN result
                    ELSE r
  /\ last' = [last EXCEPT !.op = "print", !.limit = run.args.limit]
  /\ UNCHANGED <<store, feed, merged, procs, text>>

NextMain ==
  \/ Main
  \/ MainFeed
  \/ MainWrite
  \/ MainCreateHtml
  \/ MainCreateFb2
  \/ MainRead
  \/ MainPrint

SpecMain == InitMain /\ [][NextMain]_vars

(***************************************************************************)
(* Properties of main, checked under SpecMain.                             *)
(***************************************************************************)
\* the exceptions behind the fatal errors of the core: the fetch failed, the
\* document has no rss element, the storage file cannot be decoded, no news
\* of the date were found
CoreErrors == FetchErrors \cup { "JSONDecodeError", "NoNewsFound" }

\* C11: an invocation that ended on a fatal error of the core has printed a
\* message and has an exit status other than 0
C11_FatalExitNonZero ==
  (run.pc = "exit" /\ run.error \in CoreErrors) =>
    /\ run.printed # {}
    /\ run.status # 0

\* C12: a step in which the fetch fails is the one call of requests.get of
\* the invocation, prints that exception, ends the invocation and leaves the
\* storage file as it was; no step before it touches the file, and no step
\* follows it
C12_FetchFailureEndsRun ==
  [][ /\ run.pc \in {"main", "Feed"} => store' = store
      /\ run'.error \in FetchErrors =>
           /\ run.pc = "Feed"
           /\ run'.pc = "exit"
           /\ run'.fetches = 1
           /\ run'.error \in run'.printed
           /\ store' = store
      /\ run.error \notin FetchErrors ]_vars

\* C12 witness: the connection failed on the first run, and there is still
\* no storage file
C12_Witness ==
  /\ run.pc = "exit"
  /\ run.error = "ConnectionError"
  /\ run.fetches = 1
  /\ store = Absent

\* the invocation was given neither, both, or one of source and date
Neither == run.args.source = NoSource /\ run.args.date = ""

Both == run.args.source # NoSource /\ run.args.date # ""

\* C17 as stated: with neither or both of source and date the usage text is
\* printed and the invocation ends with status 0 without a fetch, a read of
\* the storage file or a rendering; only a source alone is fetched, and only
\* a date alone reads the storage file
C17_ExactlyOneRequired ==
  /\ ((Neither \/ Both) /\ run.pc # "main") =>
       /\ run.pc = "exit" /\ run.status = 0
       /\ "usage" \in run.printed
       /\ run.fetches = 0 /\ run.reads = 0 /\ run.rendered = {}
  /\ run.fetches > 0 => (run.args.source # NoSource /\ run.args.date = "")
  /\ run.reads > 0 => (run.args.source = NoSource /\ run.args.date # "")

\* C17: with neither source nor date the usage text is printed and the
\* invocation ends with status 0 without a fetch, a read of the storage file
\* or a rendering, and the usage text is printed in no other case; a source
\* with no date is fetched once and the storage file is not read; a date that
\* strptime accepts, with or without a source, is read from the storage file
\* once with that source as the filter, and nothing is fetched
C17_AtLeastOneRequired ==
  /\ (Neither /\ run.pc # "main") =>
       /\ run.pc = "exit" /\ run.status = 0
       /\ run.fetches = 0 /\ run.reads = 0 /\ run.rendered = {}
  /\ run.pc # "main" => ("usage" \in run.printed <=> Neither)
  /\ run.fetches > 0 => (run.args.source # NoSource /\ run.args.date = "")
  /\ (run.args.source # NoSource /\ run.args.date = "" /\ run.pc \notin {"main", "Feed"}) =>
       run.fetches = 1 /\ run.reads = 0
  /\ run.reads > 0 => is_valid_date(run.args.date)
  /\ (is_valid_date(run.args.date) /\ run.pc \notin {"main", "read_from_database"}) =>
       /\ run.reads = 1 /\ run.fetches = 0
       /\ result = read_from_database(strptime[run.args.date], store, run.args.source)
            \/ last.op \in {"create_html", "create_fb2", "print"}

\* C17 witness: a source and a date were given, and the invocation has printed
\* the stored items of that source and date
C17_Witness ==
  /\ Both
  /\ run.pc = "exit"
  /\ run.reads = 1 /\ run.fetches = 0
  /\ output.kind = "return" /\ ~ output.is_none
  /\ Len(output.value) = 1
  /\ output.value[1]["Source"] = run.args.source

(***************************************************************************)
(* The renderers and printers, called one after the other on the list that *)
(* read_from_database returned, each with a limit of its own.              *)
(***************************************************************************)
InitRender == InitQuery /\ feed = NoFeed

\* create_html(feeds_source=feeds_from_database, path, limit)
CreateHtml(limit) ==
  /\ last.op \in {"read_from_database", "print_data_json", "get_text_from_storage",
                 "create_html", "create_fb2"}
  /\ result.kind = "return"
  /\ output' = create_html(result, limit)
  /\ result' = IF result.is_none \/ limit <= 0 THEN result
               ELSE Return(limited(result.value, limit))
  /\ last' = [last EXCEPT !.op = "create_html", !.limit = limit]
  /\ UNCHANGED <<store, feed, merged, run, procs, text>>

\* create_fb2(feeds_source=feeds_from_database, path, limit)
CreateFb2(limit) ==
  /\ last.op \in {"read_from_database", "print_data_json", "get_text_from_storage",
                 "create_html", "create_fb2"}
  /\ result.kind = "return"
  /\ output' = create_fb2(result, limit)
  /\ result' = IF result.is_none \/ limit <= 0 THEN result
               ELSE Return(limited(result.value, limit))
  /\ last' = [last EXCEPT !.op = "create_fb2", !.limit = limit]
  /\ UNCHANGED <<store, feed, merged, run, procs, text>>

NextRender ==
  \/ \E day \in Dates, source \in Sources \cup {NoSource} : ReadFromDatabase(day, source)
  \/ \E limit \in Limits : CreateHtml(limit)
  \/ \E limit \in Limits : CreateFb2(limit)
  \/ \E limit \in Limits : PrintDataJson(limit)
  \/ \E limit \in Limits : GetTextFromStorage(limit)

SpecRender == InitRender /\ [][NextRender]_vars

\* C16: a renderer or printer leaves the list it was given, and the items of
\* every feed in it, as they were
C16_RenderersReadOnly ==
  [][ last'.op \in {"create_html", "create_fb2", "print_data_json", "get_text_from_storage"}
        => result' = result ]_vars

(***************************************************************************)
(* Feed.html_to_text.  A string is a sequence of pieces: a letter, a        *)
(* semicolon, a tag, or the name of an entity with its ampersand, so that   *)
(* "&nbsp;" is the two pieces "&nbsp" and ";".                              *)
(***************************************************************************)
Pieces == { "x", ";", "<p>", "&nbsp", "&laquo", "&raquo" }

\* the character that the parser puts in the place of an entity
glyph == ("&nbsp" :> "U+00A0") @@ ("&laquo" :> "U+00AB") @@ ("&raquo" :> "U+00BB")

\* str.replace(old, ""): the occurrences of old are taken out, left to right
RECURSIVE replace(_, _)
replace(s, old) ==
  IF Len(s) < Len(old) THEN s
  ELSE IF SubSeq(s, 1, Len(old)) = old THEN replace(SubSeq(s, Len(old) + 1, Len(s)), old)
  ELSE <<s[1]>> \o replace(Tail(s), old)

\* bool(soup.find()): the string holds a tag
has_markup(s) == \E k \in 1 .. Len(s) : s[k] = "<p>"

\* soup.get_text(): the tags are dropped and the entities are characters; an
\* entity name with no semicolon is a character or stays as it is written,
\* as the parser (bare) has it
RECURSIVE get_text(_, _)
get_text(s, bare) ==
  IF s = <<>> THEN <<>>
  ELSE IF s[1] = "<p>" THEN get_text(Tail(s), bare)
  ELSE IF s[1] \in DOMAIN glyph /\ Len(s) >= 2 /\ s[2] = ";"
  THEN <<glyph[s[1]]>> \o get_text(SubSeq(s, 3, Len(s)), bare)
  ELSE IF s[1] \in DOMAIN glyph /\ bare THEN <<glyph[s[1]]>> \o get_text(Tail(s), bare)
  ELSE <<s[1]>> \o get_text(Tail(s), bare)

\* .replace("&nbsp", "").replace("&laquo;", "").replace("&raquo;", "")
replaced(s) == replace(replace(replace(s, <<"&nbsp">>), <<"&laquo", ";">>), <<"&raquo", ";">>)

\* the strings that html_to_text may return for an input
html_to_text(input) ==
  IF has_markup(input) THEN { replaced(get_text(input, bare)) : bare \in BOOLEAN }
  ELSE { replaced(input) }

Inputs == SeqsUpTo(Pieces, MaxText)

InitText ==
  /\ store = Absent
  /\ feed = NoFeed
  /\ last = Call("start", None, 0, NoSource, 0)
  /\ result = Nothing
  /\ output = Nothing
  /\ merged = [s \in FetchedSources |-> {}]
  /\ run = NoRun
  /\ procs = NoProcs
  /\ \E input \in Inputs : text = [input |-> input, returned |-> FALSE, value |-> <<>>]

\* item_dict[el.name] = Feed.html_to_text(el.text)
HtmlToText ==
  /\ ~ text.returned
  /\ \E value \in html_to_text(text.input) :
       text' = [text EXCEPT !.returned = TRUE, !.value = value]
  /\ UNCHANGED <<store, feed, last, result, output, merged, run, procs>>

NextText == HtmlToText

SpecText == InitText /\ [][NextText]_vars

\* every semicolon of the string ends an entity, and every entity name has
\* its semicolon
EntitiesOnly(s) ==
  \A k \in 1 .. Len(s) :
    /\ s[k] = ";" => (k > 1 /\ s[k - 1] \in DOMAIN glyph)
    /\ s[k] \in DOMAIN glyph => (k < Len(s) /\ s[k + 1] = ";")

\* C18: when every semicolon of the input belongs to one of the three
\* entities, the returned string holds no entity name and no semicolon; an
\* input with no tag and no entity name is returned as it is
C18_EntitiesRemoved ==
  text.returned =>
    /\ EntitiesOnly(text.input) =>
         \A k \in 1 .. Len(text.value) : text.value[k] \notin DOMAIN glyph \cup {";"}
    /\ (~ has_markup(text.input) /\ \A k \in 1 .. Len(text.input) : text.input[k] \notin DOMAIN glyph)
         => text.value = text.input

(***************************************************************************)
(* Two processes inside write_to_database on the same storage path, with   *)
(* no lock: each one tests os.path.exists, loads the file and merges in    *)
(* memory, opens the file for writing, and dumps its list.                 *)
(***************************************************************************)
Procs == { "A", "B" }

\* the feeds the two processes have fetched: documents of channel a, and
\* one document of channel b
RaceFetches ==
  Fetches \cup { Feed(<<"b", "/", "/">>, ChannelTitle(<<"b">>), <<e>>) :
                   e \in { x \in Entries : x.title = "t3" } }

\* the storage file before the two processes start: none, or one feed of
\* channel a with one item
RaceStores ==
  { Absent }
  \cup { write_to_database(Absent, Feed(<<"a">>, ChannelTitle(<<"a">>), <<e>>)).file :
           e \in { x \in Entries : x.title \in {"t1", "t2", "t4"} } }

\* the processes that have dumped their list
Dumped == { q \in Procs : procs[q].order > 0 }

InitRace ==
  /\ store \in RaceStores
  /\ feed = NoFeed
  /\ last = Call("start", None, 0, NoSource, 0)
  /\ result = Nothing
  /\ output = Nothing
  /\ merged = [s \in FetchedSources |-> {}]
  /\ run = NoRun
  /\ text = NoText
  /\ \E fa \in RaceFetches, fb \in RaceFetches :
       procs = [p \in Procs |->
                  [pc |-> "exists", self |-> IF p = "A" THEN fa ELSE fb, feed_list |-> <<>>,
                   exc |-> None, snapshot |-> Absent, seen |-> 0, order |-> 0]]

\* if not os.path.exists(storage_path): the process that finds no file goes
\* on to create it and never loads
Exists(p) ==
  /\ procs[p].pc = "exists"
  /\ procs' = [procs EXCEPT ![p] =
                 IF ~ store.exists
                 THEN [@ EXCEPT !.pc = "open", !.snapshot = store,
                                !.seen = Cardinality(Dumped)]
                 ELSE [@ EXCEPT !.pc = "load"]]
  /\ UNCHANGED <<store, feed, last, result, output, merged, run, text>>

\* feed_list = json.load(json_file), and the merge of self into feed_list;
\* on an empty file the JSONDecodeError handler ends in NameError
Load(p) ==
  /\ procs[p].pc = "load"
  /\ \E w \in { write_to_database(store, procs[p].self) } :
       procs' = [procs EXCEPT ![p] =
                   IF w.exc # None
                   THEN [@ EXCEPT !.pc = "done", !.exc = w.exc]
                   ELSE [@ EXCEPT !.pc = "open", !.feed_list = w.file.feed_list,
                                  !.snapshot = store, !.seen = Cardinality(Dumped)]]
  /\ UNCHANGED <<store, feed, last, result, output, merged, run, text>>

\* Open where the process loads the file and merges again before it
\* truncates it
Open_reloading(p) ==
  /\ procs[p].pc = "open"
  /\ store' = Undecodable
  /\ procs' = [procs EXCEPT ![p] =
                 IF store.decodable /\ write_to_database(store, procs[p].self).exc = None
                 THEN [@ EXCEPT !.pc = "dump",
                                !.feed_list = write_to_database(store, procs[p].self).file.feed_list]
                 ELSE [@ EXCEPT !.pc = "dump"]]
  /\ UNCHANGED <<feed, last, result, output, merged, run, text>>

\* with open(storage_path, "w") as json_file: the file exists and is empty
Open(p) ==
  /\ procs[p].pc = "open"
  /\ store' = Undecodable
  /\ procs' = [procs EXCEPT ![p] = [@ EXCEPT !.pc = "dump"]]
  /\ UNCHANGED <<feed, last, result, output, merged, run, text>>

\* json.dump(feed_list, json_file), or json.dump([self.get_dict()], json_file)
\* in the process that creates the file
Dump(p) ==
  /\ procs[p].pc = "dump"
  /\ IF procs[p].snapshot.exists
     THEN /\ store' = File(procs[p].feed_list)
          /\ procs' = [procs EXCEPT ![p] =
                         [@ EXCEPT !.pc = "done", !.order = Cardinality(Dumped) + 1]]
     ELSE IF get_dict_exception(procs[p].self) # None
     THEN /\ store' = store
          /\ procs' = [procs EXCEPT ![p] =
                         [@ EXCEPT !.pc = "done", !.exc = get_dict_exception(procs[p].self)]]
     ELSE /\ store' = File(<<get_dict(procs[p].self, 0)>>)
          /\ procs' = [procs EXCEPT ![p] =
                         [@ EXCEPT !.pc = "done", !.order = Cardinality(Dumped) + 1,
                                   !.feed_list = <<get_dict(procs[p].self, 0)>>]]
  /\ UNCHANGED <<feed, last, result, output, merged, run, text>>

NextRace ==
  \/ \E p \in Procs : Exists(p)
  \/ \E p \in Procs : Load(p)
  \/ \E p \in Procs : Open(p)
  \/ \E p \in Procs : Dump(p)

SpecRace == InitRace /\ [][NextRace]_vars

\* the guids stored for a source in a storage file
StoredGuids(file, source) ==
  IF Stored(file, source) THEN guids_of(FeedOf(file, source)["items"]) ELSE {}

\* the guids that a process fetched and that the file it loaded did not hold
MergedBy(proc) ==
  guids_of(proc.self.feed_items) \ StoredGuids(proc.snapshot, proc.self.source)

\* C20: when both processes have dumped, the file holds the list of the one
\* that dumped last.  If that one loaded before the other dumped, the file
\* is its merge into the file both loaded, and what the other merged and it
\* did not fetch itself is not in the file; if it loaded after the other
\* dumped, the file is the two merges one after the other and holds the
\* guids both fetched
C20_LastWriterWins ==
  \A p \in Procs : \A q \in Procs \ {p} :
    (procs[p].order = 1 /\ procs[q].order = 2) =>
      /\ store = File(procs[q].feed_list)
      /\ procs[q].seen = 0 =>
           /\ procs[q].snapshot = procs[p].snapshot
           /\ store = write_to_database(procs[q].snapshot, procs[q].self).file
           /\ \A g \in MergedBy(procs[p]) :
                (procs[q].self.source # procs[p].self.source
                   \/ g \notin guids_of(procs[q].self.feed_items))
                  => g \notin StoredGuids(store, procs[p].self.source)
      /\ procs[q].seen = 1 =>
           /\ store = write_to_database(
                        write_to_database(procs[p].snapshot, procs[p].self).file,
                        procs[q].self).file
           /\ \A r \in Procs :
                guids_of(procs[r].self.feed_items) \subseteq StoredGuids(store, procs[r].self.source)

\* C20 witness: B loaded before A dumped and dumped after it, and a guid that
\* A merged is not in the file
C20_Witness ==
  /\ procs["A"].order = 1 /\ procs["B"].order = 2
  /\ procs["B"].seen = 0
  /\ procs["A"].snapshot.exists
  /\ \E g \in MergedBy(procs["A"]) : g \notin StoredGuids(store, procs["A"].self.source)

\* the two merges ran one after the other, and the file holds what both
\* fetched
C20_WitnessSequential ==
  /\ procs["A"].order = 1 /\ procs["B"].order = 2
  /\ procs["B"].seen = 1
  /\ MergedBy(procs["A"]) # {} /\ MergedBy(procs["B"]) # {}

====
